---- MODULE Spec2Model ----
(***************************************************************************)
(* Model of the randomness-beacon gossip coordinator                       *)
(* (client/randomness-beacon/src/lib.rs): the RandomnessGossip future, its *)
(* per-nonce topics map, the gossip validator and the wire envelope.       *)
(*                                                                         *)
(* One call of RandomnessGossip::poll is modelled as the step Poll (lines  *)
(* 295-336: transport poll, nonce poll, session creation) followed by one  *)
(* step PollTopic(n) per entry of the topics map (the body of the for loop *)
(* of lines 338-374), taken in any order because HashMap iteration order   *)
(* is unspecified.  pc and todo record the position inside the call.       *)
(* Block import, the network and the clock are environment actions; what   *)
(* a call finds when it polls the transport, the closed notification       *)
(* channel, the DKG runtime api and the consumer channel are inputs of the *)
(* step that polls them.                                                   *)
(***************************************************************************)
EXTENDS Integers, Sequences, FiniteSets, TLC

\* ---------------------------------------------------------------- bounds
MaxThreshold == 2   \* thresholds 1..MaxThreshold are tried
MaxEvents    == 4   \* moves of the environment: notifications sent, raw
                    \* messages delivered, seconds passed, sinks dropped

\* ------------------------------------------------------------- constants
SEND_INTERVAL == 1  \* time::Duration::from_secs(1); the clock counts seconds

Nonces   == {1, 2}  \* block hashes (one byte wide in the model)
Creators == {1, 2}  \* share producers known to the verification keys

\* Option<T>: None is <<>>, Some(x) is <<x>>
None    == <<>>
Some(x) == <<x>>
IsSome(o) == o /= <<>>
Unwrap(o) == o[1]

\* ------------------------------------------------------------ wire codec
\* RandomnessShare: creator index then signature.  A signature byte equal
\* to n stands for the creator's signature of nonce n, which verifies for
\* the round of n and for no other round.
Shares == [creator : Creators, sig : Nonces]

RandomnessShare_encode(share) == <<share.creator, share.sig>>

RandomnessShare_decode(bytes) ==
  IF Len(bytes) >= 2
    THEN Some([creator |-> bytes[1], sig |-> bytes[2]])
    ELSE None

\* GossipMessage { nonce, message: Message { share: Vec<u8> } }:
\* the fixed-width nonce, then the length-prefixed share bytes.
GossipMessage_encode(gm) == <<gm.nonce, Len(gm.share)>> \o gm.share

GossipMessage_decode(data) ==
  IF Len(data) >= 2 /\ Len(data) >= 2 + data[2]
    THEN Some([nonce |-> data[1], share |-> SubSeq(data, 3, 2 + data[2])])
    ELSE None

\* Payloads the network may put in an envelope: every encoded share, and
\* byte strings too short to decode into a share.
SharePayloads == {RandomnessShare_encode(s) : s \in Shares} \cup {<<>>}

\* Raw byte strings the network may hand to the gossip engine: every
\* well-formed envelope and an envelope cut short.
RawMessages ==
  {GossipMessage_encode([nonce |-> n, share |-> p]) : n \in Nonces, p \in SharePayloads}
    \cup {<<1, 2, 1>>}

\* ------------------------------------------------------ gossip validator
\* mutation: every decodable message is kept under one fixed topic
validate_under_one_topic(data) ==
  LET decoded == GossipMessage_decode(data) IN
  IF IsSome(decoded)
    THEN [result |-> "ProcessAndKeep", topic |-> 1]
    ELSE [result |-> "Discard", topic |-> 0]

\* GossipValidator::validate: ProcessAndKeep(topic) or Discard
validate(data) ==
  LET decoded == GossipMessage_decode(data) IN
  IF IsSome(decoded)
    THEN [result |-> "ProcessAndKeep", topic |-> Unwrap(decoded).nonce]
    ELSE [result |-> "Discard", topic |-> 0]

\* ----------------------------------------------- round crypto capability
\* RBBox::new(ix, raw_key, verification_keys, master_key, t); keys names the
\* block whose verification material the box holds.
RBBox_new(ix, raw_key, keys) == [ix |-> ix, raw_key |-> raw_key, keys |-> keys]

\* RBBox::generate_randomness_share: a share exists only for a participant
\* (an index and its secret key)
generate_randomness_share(rbbox, nonce) ==
  IF IsSome(rbbox.ix) /\ IsSome(rbbox.raw_key)
    THEN Some([creator |-> Unwrap(rbbox.ix), sig |-> nonce])
    ELSE None

\* RBBox::verify_randomness_share
verify_randomness_share(rbbox, share) ==
  share.creator \in Creators /\ share.sig = rbbox.keys

\* RBBox::combine_shares
combine_shares(rbbox, shares) == [nonce |-> rbbox.keys, data |-> shares]

\* ------------------------------------------------ key/verification lookup
\* What the DKG runtime api and the offchain storage answer for a block:
\*   parts  : public_keybox_parts is Ok(Some(..))
\*   ix     : this node's index in the keybox
\*   sk     : storage_key_sk is Ok(Some(..))
\*   stored : the offchain storage holds the raw secret key
DkgUnavailable == [parts |-> FALSE, ix |-> None,    sk |-> FALSE, stored |-> FALSE]
DkgNoStorageKey == [parts |-> TRUE, ix |-> Some(1), sk |-> FALSE, stored |-> FALSE]
DkgObserver    == [parts |-> TRUE,  ix |-> None,    sk |-> TRUE,  stored |-> FALSE]
DkgKeyMissing  == [parts |-> TRUE,  ix |-> Some(1), sk |-> TRUE,  stored |-> FALSE]
DkgParticipant == [parts |-> TRUE,  ix |-> Some(1), sk |-> TRUE,  stored |-> TRUE]
DkgStates == {DkgUnavailable, DkgNoStorageKey, DkgObserver, DkgKeyMissing, DkgParticipant}

VARIABLES
  threshold,            \* RandomnessGossip.threshold
  randomness_tx,        \* RandomnessGossip.randomness_tx is Some(sender)
  topics,               \* RandomnessGossip.topics: nonce -> session
  incoming,             \* per topic, the notifications waiting in the Receiver
  incoming_closed,      \* the gossip engine dropped the sinks of the Receivers
  randomness_nonce_rx,  \* queued new-nonce notifications
  nonce_tx_closed,      \* randomness_nonce_rx has answered Ready(None)
  engine_finished,      \* the GossipEngine future has answered Ready(())
  consumer_alive,       \* no randomness_tx.send has failed
  dkg,                  \* per block, what the latest get_rbbox call was answered
  now,                  \* the clock, in seconds
  pc,                   \* position of the coordinator inside/outside poll
  todo,                 \* topics the for loop of this poll has yet to visit
  emitted,              \* Randomness values sent on randomness_tx, in order
  published,            \* gossip_message calls made: topic, data, time
  lookups,              \* per nonce, the number of get_rbbox calls
  notified,             \* notifications sent so far
  delivered             \* raw messages handed to the engine so far

vars == <<threshold, randomness_tx, topics, incoming, incoming_closed,
          randomness_nonce_rx, nonce_tx_closed, engine_finished,
          consumer_alive, dkg, now, pc, todo, emitted, published, lookups,
          notified, delivered>>

\* RandomnessGossip::new: no topics; the channels are open and empty
Init ==
  /\ threshold \in 1..MaxThreshold
  /\ randomness_tx \in BOOLEAN
  /\ topics = [n \in {} |-> None]
  /\ incoming = [n \in Nonces |-> <<>>]
  /\ incoming_closed = FALSE
  /\ randomness_nonce_rx = <<>>
  /\ nonce_tx_closed = FALSE
  /\ engine_finished = FALSE
  /\ consumer_alive = TRUE
  /\ dkg = [n \in Nonces |-> DkgUnavailable]
  /\ now = 0
  /\ pc = "idle"
  /\ todo = {}
  /\ emitted = <<>>
  /\ published = {}
  /\ lookups = [n \in Nonces |-> 0]
  /\ notified = 0
  /\ delivered = 0

\* ------------------------------------------------------------ coordinator
\* moves the environment has made
Events == notified + delivered + now + (IF incoming_closed THEN 1 ELSE 0)

\* poll runs to its return without yielding, so the environment is observed
\* between calls
Running == pc = "idle" /\ Events < MaxEvents

\* mutation: the result of polling the transport is ignored
gossip_engine_never_ready(ready) == FALSE

\* self.gossip_engine.lock().poll_unpin(cx) is Poll::Ready(()); ready is
\* whether the transport has completed by the time of the call
gossip_engine_ready(ready) == ready

\* self.randomness_nonce_rx.poll_next_unpin(cx): queued items come first,
\* Ready(None) once the channel is drained and its sender dropped; closed
\* is whether block import has dropped the sender by the time of the call
poll_next_nonce(closed) ==
  IF randomness_nonce_rx /= <<>> THEN [poll |-> "Ready", item |-> Some(Head(randomness_nonce_rx))]
  ELSE IF closed THEN [poll |-> "Ready", item |-> None]
  ELSE [poll |-> "Pending", item |-> None]

\* mutation: Ready(None) ends the future only when no topic is left
nonce_source_ends_if_no_topics(p) ==
  p.poll = "Ready" /\ p.item = None /\ DOMAIN topics = {}

\* mutation: the call drains the channel instead of taking one item
rest_after_drain(queue) == <<>>

\* what poll_next_unpin leaves in the channel when it returns an item
\* (line 305, called once per call of poll)
rest_after_next(queue) == Tail(queue)

\* the match of lines 305-309: TRUE when poll returns Poll::Ready(())
nonce_source_ends(p) == p.poll = "Ready" /\ p.item = None

\* mutation: the contains_key test is lost
contains_key_never(map, topic) == FALSE

\* self.topics.contains_key(&topic)
contains_key(map, topic) == topic \in DOMAIN map

\* mutation: a missing storage key no longer makes get_rbbox return None
get_rbbox_without_storage_key(nonce, d) ==
  IF ~d.parts THEN None
  ELSE LET raw_key == IF IsSome(d.ix) /\ d.stored THEN Some("raw_key") ELSE None
       IN  Some(RBBox_new(d.ix, raw_key, nonce))

\* RandomnessGossip::get_rbbox; d is what the runtime api and the offchain
\* storage answer for the block
get_rbbox(nonce, d) ==
  IF ~d.parts THEN None
  ELSE IF ~d.sk THEN None
  ELSE LET raw_key == IF IsSome(d.ix) /\ d.stored THEN Some("raw_key") ELSE None
       IN  Some(RBBox_new(d.ix, raw_key, nonce))

\* mutation: the outbound message is armed whether or not a share exists
initialize_nonce_always_armed(nonce, rbbox) ==
  LET maybe_share == generate_randomness_share(rbbox, nonce) IN
  IF IsSome(maybe_share)
    THEN [message |-> Some([nonce |-> nonce,
                            msg   |-> RandomnessShare_encode(Unwrap(maybe_share))]),
          shares  |-> <<Unwrap(maybe_share)>>]
    ELSE [message |-> Some([nonce |-> nonce, msg |-> <<>>]), shares |-> <<>>]

\* RandomnessGossip::initialize_nonce: the outbound message and the shares
\* the session starts with (the inbound stream is incoming[nonce])
initialize_nonce(nonce, rbbox) ==
  LET maybe_share == generate_randomness_share(rbbox, nonce) IN
  IF IsSome(maybe_share)
    THEN [message |-> Some([nonce |-> nonce,
                            msg   |-> RandomnessShare_encode(Unwrap(maybe_share))]),
          shares  |-> <<Unwrap(maybe_share)>>]
    ELSE [message |-> None, shares |-> <<>>]

\* mutation: the insert starts from an empty map
insert_into_fresh_map(map, topic, session) == [n \in {topic} |-> session]

\* self.topics.insert(topic, (incoming, msg, periodic_sender, rbbox, shares))
insert(map, topic, session) ==
  [n \in DOMAIN map \cup {topic} |-> IF n = topic THEN session ELSE map[n]]

\* lines 316-334: the topics map after a poll that received new_nonce
open_session(new_nonce, d) ==
  IF IsSome(new_nonce) /\ ~contains_key(topics, Unwrap(new_nonce))
    THEN LET maybe_rbbox == get_rbbox(Unwrap(new_nonce), d) IN
         IF IsSome(maybe_rbbox)
           THEN LET init == initialize_nonce(Unwrap(new_nonce), Unwrap(maybe_rbbox)) IN
                insert(topics, Unwrap(new_nonce),
                       [maybe_msg       |-> init.message,
                        periodic_sender |-> now + SEND_INTERVAL,
                        rbbox           |-> Unwrap(maybe_rbbox),
                        shares          |-> init.shares])
           ELSE topics
    ELSE topics

\* whether lines 316-321 call get_rbbox
looks_up(new_nonce) == IsSome(new_nonce) /\ ~contains_key(topics, Unwrap(new_nonce))

\* RandomnessGossip::poll, lines 295-336.  The inputs of the call: ready
\* (the transport has completed), closed (the notification sender was
\* dropped) and d (the answer of the lookup, when one is made).
Poll ==
  /\ pc = "idle"
  /\ \E ready \in BOOLEAN, closed \in BOOLEAN, d \in DkgStates :
       /\ engine_finished' = ready
       /\ IF gossip_engine_ready(ready)
            THEN /\ pc' = "finished"
                 /\ ~closed /\ d = DkgUnavailable
                 /\ UNCHANGED <<topics, randomness_nonce_rx, nonce_tx_closed,
                                lookups, dkg, todo>>
            ELSE LET p == poll_next_nonce(closed) IN
                 /\ nonce_tx_closed' = (closed /\ randomness_nonce_rx = <<>>)
                 /\ closed => randomness_nonce_rx = <<>>
                 /\ IF nonce_source_ends(p)
                      THEN /\ pc' = "finished"
                           /\ d = DkgUnavailable
                           /\ UNCHANGED <<topics, randomness_nonce_rx, lookups, dkg, todo>>
                      ELSE /\ randomness_nonce_rx' =
                                IF IsSome(p.item) THEN rest_after_next(randomness_nonce_rx)
                                                  ELSE randomness_nonce_rx
                           /\ IF looks_up(p.item)
                                THEN /\ dkg' = [dkg EXCEPT ![Unwrap(p.item)] = d]
                                     /\ lookups' = [lookups EXCEPT ![Unwrap(p.item)] = @ + 1]
                                ELSE /\ d = DkgUnavailable
                                     /\ UNCHANGED <<dkg, lookups>>
                           /\ topics' = open_session(p.item, d)
                           /\ todo' = DOMAIN topics'
                           /\ pc' = IF todo' = {} THEN "idle" ELSE "polling"
  /\ UNCHANGED <<threshold, randomness_tx, incoming, incoming_closed,
                 consumer_alive, now, emitted, published, notified, delivered>>

\* mutation: the envelope is built with a default nonce
OutgoingMessage_send_default_nonce(msg) ==
  [topic |-> msg.nonce,
   data  |-> GossipMessage_encode([nonce |-> 0, share |-> msg.msg]),
   at    |-> now]

\* OutgoingMessage::send: the gossip_message call it makes
OutgoingMessage_send(msg) ==
  [topic |-> msg.nonce,
   data  |-> GossipMessage_encode([nonce |-> msg.nonce, share |-> msg.msg]),
   at    |-> now]

\* mutation: the Delay is not consulted
timer_fires_always(session) == IsSome(session.maybe_msg)

\* lines 339-340: the session has an outbound message and its Delay is ready
timer_fires(session) ==
  IsSome(session.maybe_msg) /\ now >= session.periodic_sender

\* incoming.poll_next_unpin(cx), line 346
poll_incoming(n) ==
  IF incoming[n] /= <<>> THEN [poll |-> "Ready", item |-> Some(Head(incoming[n]))]
  ELSE IF incoming_closed THEN [poll |-> "Ready", item |-> None]
  ELSE [poll |-> "Pending", item |-> None]

\* lines 349-351: the share carried by a notification; None where one of
\* the two unwrap calls panics
decode_notification(message) ==
  LET gm == GossipMessage_decode(message) IN
  IF IsSome(gm) THEN RandomnessShare_decode(Unwrap(gm).share) ELSE None

\* mutation: shares are pushed without verification
accepts_unverified(rbbox, share) == TRUE

\* line 352
accepts(rbbox, share) == verify_randomness_share(rbbox, share)

\* mutation: the new share goes to the front of the collection
push_front(shares, share) == <<share>> \o shares

\* shares.push(share), line 353
push(shares, share) == Append(shares, share)

\* mutation: the comparison of line 355 is off by one
threshold_reached_late(shares) == Len(shares) = threshold + 1

\* mutation: the comparison of line 355 is >= instead of ==
threshold_reached_or_passed(shares) == Len(shares) >= threshold

\* line 355
threshold_reached(shares) == Len(shares) = threshold

\* lines 346-373: what polling the inbound stream of session n does:
\* the new share collection, whether randomness_tx.send is called, the
\* randomness that reaches the consumer (if any) and whether the step
\* panics; alive is whether the block proposer still
\* holds the receiving end when randomness_tx.send is called
ingest(n, alive) ==
  LET session == topics[n]
      p == poll_incoming(n)
      quiet == [shares |-> session.shares, sends |-> FALSE, send |-> None,
                panic |-> FALSE]
  IN
  IF p.poll = "Ready" /\ IsSome(p.item)
    THEN LET maybe_share == decode_notification(Unwrap(p.item)) IN
         IF ~IsSome(maybe_share)
           THEN [quiet EXCEPT !.panic = TRUE]
           ELSE LET share == Unwrap(maybe_share) IN
                IF accepts(session.rbbox, share)
                  THEN LET shares == push(session.shares, share) IN
                       IF threshold_reached(shares)
                         THEN LET randomness == combine_shares(session.rbbox, shares) IN
                              IF randomness_tx
                                THEN [shares |-> shares,
                                      sends  |-> TRUE,
                                      send   |-> IF alive THEN Some(randomness) ELSE None,
                                      panic  |-> ~alive]
                                ELSE [quiet EXCEPT !.shares = shares]
                         ELSE [quiet EXCEPT !.shares = shares]
                  ELSE quiet
    ELSE quiet

\* mutation: the Delay is shared, a reset rearms every session
iter_mut_entry_shared_timer(map, n, fires, shares) ==
  [m \in DOMAIN map |->
     [map[m] EXCEPT !.periodic_sender = IF fires THEN now + SEND_INTERVAL ELSE @,
                    !.shares = IF m = n THEN shares ELSE @]]

\* what the loop body writes through its iter_mut entry (lines 338, 341,
\* 353): the Delay and the shares of session n, nothing of another session
iter_mut_entry(map, n, fires, shares) ==
  [map EXCEPT ![n] =
     [@ EXCEPT !.periodic_sender = IF fires THEN now + SEND_INTERVAL ELSE @,
               !.shares = shares]]

\* RandomnessGossip::poll, the body of the for loop (lines 338-374) for the
\* entry of nonce n, and the return of line 375 after the last entry
PollTopic(n) ==
  /\ pc = "polling"
  /\ n \in todo
  /\ \E alive \in BOOLEAN :
     LET session == topics[n]
         fires == timer_fires(session)
         r == ingest(n, alive)
     IN
     /\ IF r.sends THEN alive => consumer_alive ELSE alive
     /\ consumer_alive' = IF r.sends THEN alive ELSE consumer_alive
     /\ published' = IF fires
                       THEN published \cup {OutgoingMessage_send(Unwrap(session.maybe_msg))}
                       ELSE published
     /\ topics' = iter_mut_entry(topics, n, fires, r.shares)
     /\ incoming' = IF incoming[n] /= <<>>
                      THEN [incoming EXCEPT ![n] = Tail(@)]
                      ELSE incoming
     /\ emitted' = IF IsSome(r.send) THEN Append(emitted, Unwrap(r.send)) ELSE emitted
     /\ todo' = todo \ {n}
     /\ pc' = IF r.panic THEN "panicked"
              ELSE IF todo' = {} THEN "idle" ELSE "polling"
  /\ UNCHANGED <<threshold, randomness_tx, incoming_closed, randomness_nonce_rx,
                 nonce_tx_closed, engine_finished, dkg, now,
                 lookups, notified, delivered>>

\* ------------------------------------------------------------ environment
\* block import sends a new-nonce notification
NotifyNonce(n) ==
  /\ Running
  /\ randomness_nonce_rx' = Append(randomness_nonce_rx, n)
  /\ notified' = notified + 1
  /\ UNCHANGED <<threshold, randomness_tx, topics, incoming, incoming_closed,
                 nonce_tx_closed, engine_finished, consumer_alive, dkg, now,
                 pc, todo, emitted, published, lookups, delivered>>

\* the network hands raw bytes to the gossip engine, which asks the
\* validator and queues what it keeps for the subscriber of the topic
Deliver(data) ==
  /\ Running /\ ~incoming_closed
  /\ delivered' = delivered + 1
  /\ LET v == validate(data) IN
     incoming' = IF v.result = "ProcessAndKeep" /\ v.topic \in Nonces
                   THEN [incoming EXCEPT ![v.topic] = Append(@, data)]
                   ELSE incoming
  /\ UNCHANGED <<threshold, randomness_tx, topics, incoming_closed,
                 randomness_nonce_rx, nonce_tx_closed, engine_finished,
                 consumer_alive, dkg, now, pc, todo, emitted, published,
                 lookups, notified>>

\* the gossip engine drops the sinks of its subscriptions
CloseIncoming ==
  /\ Running /\ DOMAIN topics /= {} /\ ~incoming_closed
  /\ incoming_closed' = TRUE
  /\ UNCHANGED <<threshold, randomness_tx, topics, incoming,
                 randomness_nonce_rx, nonce_tx_closed, engine_finished,
                 consumer_alive, dkg, now, pc, todo, emitted, published,
                 lookups, notified, delivered>>

\* a second passes
Tick ==
  /\ Running
  /\ now' = now + 1
  /\ UNCHANGED <<threshold, randomness_tx, topics, incoming, incoming_closed,
                 randomness_nonce_rx, nonce_tx_closed, engine_finished,
                 consumer_alive, dkg, pc, todo, emitted, published, lookups,
                 notified, delivered>>

Next ==
  \/ Poll
  \/ \E n \in Nonces : PollTopic(n)
  \/ \E n \in Nonces : NotifyNonce(n)
  \/ \E data \in RawMessages : Deliver(data)
  \/ CloseIncoming
  \/ Tick

Spec == Init /\ [][Next]_vars

\* ------------------------------------------------------------ properties
Range(seq) == {seq[i] : i \in 1..Len(seq)}

EmittedFor(n) == {i \in 1..Len(emitted) : emitted[i].nonce = n}

\* A step of the for loop visits the topic n
Visits(n) == pc = "polling" /\ n \in todo /\ n \notin todo'

\* A call of poll takes the notification at the head of the queue
TakesNotification ==
  /\ pc = "idle" /\ randomness_nonce_rx /= <<>>
  /\ randomness_nonce_rx' = Tail(randomness_nonce_rx)

\* The lookup answer d carries no usable key/verification data
LookupUnavailable(d) == ~d.parts \/ ~d.sk

\* C1: for every nonce, at most one Randomness value is ever sent on the
\* consumer channel, whatever is delivered before or after the emission.
C1_AtMostOneRandomnessPerNonce ==
  \A n \in Nonces : Cardinality(EmittedFor(n)) <= 1

\* C1 witness: randomness was emitted for a nonce and its session has
\* ingested a further verified share since.
C1_Witness ==
  \E n \in DOMAIN topics :
    EmittedFor(n) /= {} /\ Len(topics[n].shares) > threshold

\* C2 (as claimed): at the end of a tick, every session whose collection
\* holds at least threshold shares has had its randomness emitted, whichever
\* share (the local one or a peer's) brought the count to the threshold.
C2_EmittedWheneverThresholdHeld ==
  (pc = "idle" /\ randomness_tx) =>
    \A n \in DOMAIN topics :
      Len(topics[n].shares) >= threshold => EmittedFor(n) /= {}

\* C3 (as claimed): every emitted randomness combines at least threshold
\* distinct valid shares; a share delivered again is not counted again.
C3_EmittedFromDistinctShares ==
  \A i \in 1..Len(emitted) : Cardinality(Range(emitted[i].data)) >= threshold

\* C4: a notification for a nonce without session whose lookup succeeds adds
\* exactly that nonce to the map and leaves the other sessions alone; a
\* notification for a nonce that has a session makes no lookup and leaves the
\* whole map (shares, outbound message, timer of every session) unchanged.
C4_OneSessionPerNonce ==
  [][TakesNotification =>
       LET N == Head(randomness_nonce_rx) IN
       IF N \in DOMAIN topics
         THEN topics' = topics /\ lookups' = lookups /\ dkg' = dkg
         ELSE /\ lookups' = [lookups EXCEPT ![N] = @ + 1]
              /\ ~LookupUnavailable(dkg'[N]) =>
                    /\ DOMAIN topics' = DOMAIN topics \cup {N}
                    /\ \A m \in DOMAIN topics : topics'[m] = topics[m]]_vars

\* C4 witness: two notifications were taken, one lookup was made in all, and
\* the nonce looked up has a session: the other notification was a repeat.
C4_Witness ==
  \E n \in DOMAIN topics :
    /\ notified = 2 /\ randomness_nonce_rx = <<>>
    /\ \A m \in Nonces : lookups[m] = IF m = n THEN 1 ELSE 0

\* An inbound notification that does not decode into a share
Malformed(message) == ~IsSome(decode_notification(message))

\* C5 (as claimed): a malformed message at the head of a session's inbound
\* stream is discarded without changing the collection, without emission
\* and without stopping the coordinator.
C5_MalformedIsNonFatal ==
  [][\A n \in Nonces :
       (Visits(n) /\ incoming[n] /= <<>> /\ Malformed(Head(incoming[n]))) =>
         /\ incoming'[n] = Tail(incoming[n])
         /\ topics'[n].shares = topics[n].shares
         /\ emitted' = emitted
         /\ pc' /= "panicked"]_vars

\* C6: an ingested message whose share passes verify_randomness_share grows
\* the collection by exactly that share, at the end; one whose share fails
\* leaves the collection alone and nothing is emitted in that step.
C6_VerifiedSharesAppended ==
  [][\A n \in Nonces :
       (Visits(n) /\ incoming[n] /= <<>> /\ ~Malformed(Head(incoming[n]))) =>
         LET share == Unwrap(decode_notification(Head(incoming[n]))) IN
         IF verify_randomness_share(topics[n].rbbox, share)
           THEN topics'[n].shares = Append(topics[n].shares, share)
           ELSE topics'[n].shares = topics[n].shares /\ emitted' = emitted]_vars

\* C6 witness: a session holds a share of a producer other than this node,
\* which can only have come through verification.
C6_Witness ==
  \E n \in DOMAIN topics :
    \E i \in 1..Len(topics[n].shares) : topics[n].shares[i].creator = 2

\* C7 (as claimed): a failed send on the consumer channel does not panic
\* the coordinator, and the sessions left in the tick are still driven.
C7_SendFailureIsContained ==
  [][(consumer_alive /\ ~consumer_alive') =>
       /\ pc' /= "panicked"
       /\ DOMAIN topics' = DOMAIN topics
       /\ (todo' /= {} => pc' = "polling")]_vars

\* C8: when the transport reports completion the call returns Ready at
\* once: no notification is taken, no session is created or driven, nothing
\* is published, ingested or emitted.
C8_TransportCompletionTerminates ==
  [][engine_finished' =>
       /\ pc' = "finished"
       /\ UNCHANGED <<topics, randomness_nonce_rx, incoming, emitted,
                      published, lookups, dkg, todo>>]_vars

\* C8 witness: the coordinator has terminated on the transport's completion
\* with a session in the map, a notification queued and a message waiting.
C8_Witness ==
  /\ pc = "finished" /\ engine_finished
  /\ DOMAIN topics /= {}
  /\ randomness_nonce_rx /= <<>>
  /\ \E n \in DOMAIN topics : incoming[n] /= <<>>

C10_LookupMissIsNonFatal ==
  [][\A Y \in Nonces :
       lookups'[Y] = lookups[Y] + 1 =>
         IF LookupUnavailable(dkg'[Y])
           THEN /\ randomness_nonce_rx' = Tail(randomness_nonce_rx)
                /\ topics' = topics
                /\ todo' = DOMAIN topics
                /\ pc' = IF DOMAIN topics = {} THEN "idle" ELSE "polling"
           ELSE Y \in DOMAIN topics']_vars

\* C10 witness: a session exists for a nonce that was looked up twice: the
\* first lookup failed, the notification after it created the session.
C10_Witness ==
  \E Y \in DOMAIN topics :
    lookups[Y] = 2

\* gossip_message calls made for the topic n
PublishedOn(n) == {p \in published : p.topic = n}

\* C11: a session with a local share publishes in every visit of the loop
\* that finds its timer elapsed and in no other; each publish rearms the
\* timer one SEND_INTERVAL ahead, as session creation does, and nothing else
\* moves the timer: no publish comes sooner than one SEND_INTERVAL after the
\* creation or the previous publish.
C11_RebroadcastOncePerInterval ==
  [][\A n \in Nonces :
       /\ (n \notin DOMAIN topics /\ n \in DOMAIN topics') =>
            /\ topics'[n].periodic_sender = now + SEND_INTERVAL
            /\ PublishedOn(n)' = PublishedOn(n)
       /\ n \in DOMAIN topics =>
            LET session == topics[n]
                due == IsSome(session.maybe_msg) /\ now >= session.periodic_sender
            IN
            IF Visits(n) /\ due
              THEN /\ PublishedOn(n) \subseteq PublishedOn(n)'
                   /\ Cardinality(PublishedOn(n)' \ PublishedOn(n)) = 1
                   /\ \A p \in PublishedOn(n)' \ PublishedOn(n) : p.at = now
                   /\ \A p \in PublishedOn(n) : p.at + SEND_INTERVAL <= now
                   /\ topics'[n].periodic_sender = now + SEND_INTERVAL
              ELSE /\ PublishedOn(n)' = PublishedOn(n)
                   /\ topics'[n].periodic_sender = session.periodic_sender]_vars

\* C11 witness: a session has published twice, one interval apart.
C11_Witness ==
  \E n \in DOMAIN topics :
    \E p, q \in PublishedOn(n) : q.at = p.at + SEND_INTERVAL

\* The session of n was created without a local share
NoLocalShare(n) == ~IsSome(generate_randomness_share(topics[n].rbbox, n))

\* C12: a session without local share has no outbound message and never
\* publishes, starts with an empty collection, holds only shares that passed
\* verification, and once it holds threshold of them its randomness has been
\* sent (given a consumer channel whose receiver is alive).
C12_SessionWithoutLocalShare ==
  /\ [](\A n \in DOMAIN topics :
          NoLocalShare(n) =>
            /\ topics[n].maybe_msg = None
            /\ PublishedOn(n) = {}
            /\ \A s \in Range(topics[n].shares) :
                 verify_randomness_share(topics[n].rbbox, s)
            /\ (randomness_tx /\ consumer_alive
                  /\ Len(topics[n].shares) >= threshold) => EmittedFor(n) /= {})
  /\ [][\A n \in Nonces :
          (n \notin DOMAIN topics /\ n \in DOMAIN topics' /\ NoLocalShare(n)') =>
            topics'[n].shares = <<>>]_vars

\* C12 witness: a session without local share has had its randomness sent
\* and has published nothing although its timer has run out.
C12_Witness ==
  \E n \in DOMAIN topics :
    /\ NoLocalShare(n) /\ EmittedFor(n) /= {}
    /\ now >= topics[n].periodic_sender
    /\ pc = "idle" /\ incoming[n] = <<>>

\* A valid share for the session of Y waits at the head of its stream
ValidShareWaits(Y) ==
  /\ Y \in DOMAIN topics /\ incoming[Y] /= <<>>
  /\ ~Malformed(Head(incoming[Y]))
  /\ verify_randomness_share(topics[Y].rbbox,
                              Unwrap(decode_notification(Head(incoming[Y]))))

\* C13 (as claimed): whatever is delivered on X's topic, the coordinator
\* goes on to the session of another nonce Y that has a valid share waiting
\* and is still to be visited in the tick: a malformed message ingested for
\* X does not stop it.
C13_ErrorOnOneRoundSparesOthers ==
  [][\A X, Y \in Nonces :
       (/\ X /= Y /\ Visits(X)
        /\ incoming[X] /= <<>> /\ Malformed(Head(incoming[X]))
        /\ Y \in todo /\ ValidShareWaits(Y)) =>
         pc' = "polling"]_vars

IsPrefix(a, b) == Len(a) <= Len(b) /\ SubSeq(b, 1, Len(a)) = a

\* C14: the collection of every session is append-only: whatever step is
\* taken, the collection before it is a prefix of the collection after it,
\* and a verified share ingested after the emission is appended like any
\* other.
C14_SharesAppendOnly ==
  [][\A n \in DOMAIN topics :
       /\ n \in DOMAIN topics'
       /\ IsPrefix(topics[n].shares, topics'[n].shares)
       /\ (Visits(n) /\ EmittedFor(n) /= {} /\ ValidShareWaits(n)) =>
            Len(topics'[n].shares) = Len(topics[n].shares) + 1]_vars

\* C14 witness: a session that started with its local share holds two more
\* shares, the second ingested after the randomness was sent.
C14_Witness ==
  \E n \in DOMAIN topics :
    /\ ~NoLocalShare(n) /\ EmittedFor(n) /= {}
    /\ Len(topics[n].shares) = 3 /\ threshold = 2

\* C15: no session is ever evicted: a nonce that is in the map stays in the
\* map with the crypto capability it was created with, whatever step is
\* taken, also after its randomness was sent and after its inbound stream
\* has ended.
C15_NoEviction ==
  [][\A n \in DOMAIN topics :
       n \in DOMAIN topics' /\ topics'[n].rbbox = topics[n].rbbox]_vars

\* C15 witness: in a tick begun after the inbound streams ended, the loop
\* has visited a session whose randomness was sent and whose stream is
\* drained, and the session is still in the map.
C15_Witness ==
  \E n \in DOMAIN topics :
    /\ EmittedFor(n) /= {} /\ incoming_closed /\ incoming[n] = <<>>
    /\ pc = "polling" /\ n \notin todo

\* C16: a visit of the loop to session X (ingesting from X's stream, firing
\* X's rebroadcast, sending X's randomness) leaves the collection, outbound
\* message, timer and inbound stream of every other session as they were.
C16_SessionsAreIsolated ==
  [][\A X \in Nonces :
       Visits(X) =>
         \A Y \in DOMAIN topics \ {X} :
           topics'[Y] = topics[Y] /\ incoming'[Y] = incoming[Y]]_vars

\* C16 witness: one session has published and had its randomness sent while
\* another session is in the map.
C16_Witness ==
  \E X, Y \in DOMAIN topics :
    X /= Y /\ EmittedFor(X) /= {} /\ PublishedOn(X) /= {}

\* The nonce field of a raw message, None when the envelope does not decode
EnvelopeNonce(data) ==
  LET gm == GossipMessage_decode(data) IN
  IF IsSome(gm) THEN Some(Unwrap(gm).nonce) ELSE None

\* C17: every message waiting in the subscription of topic N is a decodable
\* envelope whose nonce field is N, and a share that a visit appends to the
\* collection of session N is the share carried by the message at the head
\* of N's own subscription.
C17_SharesComeFromOwnTopic ==
  /\ [](\A n \in Nonces :
          \A i \in 1..Len(incoming[n]) : EnvelopeNonce(incoming[n][i]) = Some(n))
  /\ [][\A n \in DOMAIN topics :
          (n \in DOMAIN topics' /\ topics'[n].shares /= topics[n].shares) =>
            /\ Visits(n) /\ incoming[n] /= <<>>
            /\ incoming'[n] = Tail(incoming[n])
            /\ EnvelopeNonce(Head(incoming[n])) = Some(n)
            /\ topics'[n].shares =
                 Append(topics[n].shares,
                        Unwrap(decode_notification(Head(incoming[n]))))]_vars

\* C17 witness: a session holds a peer's share while a message for the
\* other nonce waits in that nonce's subscription.
C17_Witness ==
  \E n \in DOMAIN topics, m \in Nonces :
    /\ m /= n /\ incoming[m] /= <<>>
    /\ \E i \in 1..Len(topics[n].shares) : topics[n].shares[i].creator = 2

\* The share generate_randomness_share gave the session of n
LocalShare(n) == Unwrap(generate_randomness_share(topics[n].rbbox, n))

\* C18: a session for which a local share was produced starts with exactly
\* that share in its collection and keeps it in first place; its outbound
\* message is the encoded local share under nonce N and never changes; every
\* gossip_message call ever made is made by such a session, on topic N, with
\* an envelope whose nonce is N and whose payload decodes to the local share.
C18_RebroadcastsLocalShare ==
  /\ [](\A n \in DOMAIN topics :
          ~NoLocalShare(n) =>
            /\ topics[n].maybe_msg =
                 Some([nonce |-> n, msg |-> RandomnessShare_encode(LocalShare(n))])
            /\ topics[n].shares /= <<>> /\ Head(topics[n].shares) = LocalShare(n))
  /\ [](\A p \in published :
          /\ p.topic \in DOMAIN topics /\ ~NoLocalShare(p.topic)
          /\ EnvelopeNonce(p.data) = Some(p.topic)
          /\ decode_notification(p.data) = Some(LocalShare(p.topic)))
  /\ [][\A n \in Nonces :
          /\ (n \notin DOMAIN topics /\ n \in DOMAIN topics' /\ ~NoLocalShare(n)') =>
               topics'[n].shares = <<LocalShare(n)'>>
          /\ (n \in DOMAIN topics /\ n \in DOMAIN topics') =>
               topics'[n].maybe_msg = topics[n].maybe_msg]_vars

\* C18 witness: a session has published its local share and has ingested a
\* peer's share since its creation.
C18_Witness ==
  \E n \in DOMAIN topics :
    PublishedOn(n) /= {} /\ Len(topics[n].shares) >= 2

\* C19: a tick takes at most one notification, the one at the head of the
\* queue, and only in its first step; what was queued behind it stays
\* queued in order; the map grows by at most one session per tick, the one
\* of the notification taken.
C19_OneNotificationPerTick ==
  [][/\ (pc = "idle" /\ Len(randomness_nonce_rx') <= Len(randomness_nonce_rx)) =>
          IF randomness_nonce_rx = <<>>
            THEN randomness_nonce_rx' = <<>>
            ELSE randomness_nonce_rx' \in
                   {randomness_nonce_rx, Tail(randomness_nonce_rx)}
     /\ pc = "polling" =>
          /\ randomness_nonce_rx' = randomness_nonce_rx
          /\ DOMAIN topics' = DOMAIN topics
     /\ DOMAIN topics' /= DOMAIN topics =>
          /\ randomness_nonce_rx /= <<>>
          /\ randomness_nonce_rx' = Tail(randomness_nonce_rx)
          /\ DOMAIN topics' = DOMAIN topics \cup {Head(randomness_nonce_rx)}]_vars

\* C19 witness: right after the first step of a tick that found two
\* notifications queued, one is taken and the other is still queued.
C19_Witness ==
  /\ pc = "polling" /\ todo = DOMAIN topics
  /\ notified = 2 /\ Len(randomness_nonce_rx) = 1
  /\ Cardinality(DOMAIN topics) = 1

\* C20: a randomness that is sent is combine_shares of the collection its
\* session holds at that moment: the collection before the visit plus the
\* share just taken from the stream, threshold shares in all, the local
\* share first when there is one.  What is sent is never altered, and stays
\* combine_shares of the first threshold shares whatever arrives later.
C20_RandomnessOfFirstThresholdShares ==
  /\ [](\A i \in 1..Len(emitted) :
          LET n == emitted[i].nonce IN
          /\ n \in DOMAIN topics
          /\ Len(topics[n].shares) >= threshold
          /\ emitted[i] = combine_shares(topics[n].rbbox,
                                          SubSeq(topics[n].shares, 1, threshold))
          /\ ~NoLocalShare(n) => Head(emitted[i].data) = LocalShare(n))
  /\ [][/\ IsPrefix(emitted, emitted')
         /\ emitted' /= emitted =>
              \E n \in DOMAIN topics :
                /\ Visits(n) /\ ValidShareWaits(n)
                /\ topics'[n].shares =
                     Append(topics[n].shares,
                            Unwrap(decode_notification(Head(incoming[n]))))
                /\ Len(topics'[n].shares) = threshold
                /\ emitted' = Append(emitted,
                                      combine_shares(topics[n].rbbox, topics'[n].shares))]_vars

\* C20 witness: a randomness combined from the local share followed by one
\* peer's share has been sent.
C20_Witness ==
  \E i \in 1..Len(emitted) :
    /\ ~NoLocalShare(emitted[i].nonce)
    /\ Len(emitted[i].data) = 2
    /\ emitted[i].data[2].creator = 2
====
